---- MODULE Spec2Model ----
(***************************************************************************)
(* Animation widgets of L04-Objects/widgets.js: the widget objects, the    *)
(* combinators that wrap them, and the timer-driven animation() driver.    *)
(*                                                                         *)
(* A widget object is a record; the objects it closes over (widget,        *)
(* widgets, parent) are nested records, so a widget tree is one value.     *)
(* A method call is an operator from the receiver's state to a record      *)
(*   [w   |-> the receiver's state after the call,                         *)
(*    log |-> the method calls made, in call order,                        *)
(*    ...  the return value (done) or whether a TypeError was thrown (err)]*)
(* A path <<i, j, ..>> names the object reached from the root widget by    *)
(* taking child i, then child j, ...; a wrapper's only child is child 1.   *)
(***************************************************************************)
EXTENDS Integers, Sequences, FiniteSets

\* ---------------------------------------------------------------- bounds
MaxFrames == 3      \* sprites.length of an AsciiAnimation ranges over 1..MaxFrames
MaxTimes  == 2      \* times of a Repeat ranges over 0..MaxTimes
MaxTime   == 3      \* maxTime of a ChangingPosition ranges over 1..MaxTime
MaxTicks  == 8      \* timer callbacks the driver is followed for
MaxCalls  == 4      \* method calls a direct caller makes
MaxLen    == 3      \* length of the array mapAsync is called on ranges over 0..MaxLen

\* ------------------------------------------------------------ the objects

\* function AsciiAnimation(sprites): animationFrame = 0; useSprite(0).
\* sprites is the number of sprites, pre the index of the sprite in <pre>.
AsciiAnimation(sprites) ==
    [kind |-> "AsciiAnimation", sprites |-> sprites, animationFrame |-> 0, pre |-> 0]

\* function Textbox(...): Object.create(Widget) with only getElement overridden
\* (Canvas and Circle are the same for tick/isDone/reset).
Textbox == [kind |-> "Textbox"]

\* function RepeatIndefinitely(widget): that = Object.create(widget).
RepeatIndefinitely(widget) == [kind |-> "RepeatIndefinitely", widget |-> widget]

\* function Repeat(widget, times): that = Object.create(widget).
Repeat(widget, times) == [kind |-> "Repeat", times |-> times, widget |-> widget]

\* function WithPadding(widget, width): that = Object.create(widget).
WithPadding(widget) == [kind |-> "WithPadding", widget |-> widget]

\* function Horizontal(widgets): that = Object.create(Widget).
Horizontal(widgets) == [kind |-> "Horizontal", widgets |-> widgets]

\* function Sequence(widgets): position = 0; that = Object.create(Widget).
Sequence(widgets) == [kind |-> "Sequence", position |-> 0, widgets |-> widgets]

\* The atTime argument of ChangingPosition is a linear motion, named by its
\* step: time |-> {left: time*step.left, top: time*step.top}.
atTime(step, time) == [left |-> time * step.left, top |-> time * step.top]

\* The motion of the example animation `current`, and a slide to the right.
AtTimeSteps == {[left |-> 5, top |-> 10], [left |-> 1, top |-> 0]}

\* Widget.ChangingPosition = function(maxTime, atTime): parent = this;
\* that = Object.create(this); time = 0; moveIt().  span is span.style's
\* left and top, in px.
ChangingPosition(widget, maxTime, step) ==
    [kind |-> "ChangingPosition", maxTime |-> maxTime, step |-> step,
     time |-> 0, span |-> atTime(step, 0), widget |-> widget]

\* The kinds made by Object.create(widget): a method they do not override
\* is found on the wrapped widget, and runs with `this` the wrapper.
Wrapping == {"RepeatIndefinitely", "Repeat", "WithPadding", "ChangingPosition"}

\* The kinds that define no tick of their own.
InheritsTick == {"RepeatIndefinitely", "Repeat", "WithPadding"}

\* -------------------------------------------------------------- navigation

RECURSIVE At(_, _)
\* The object at path p below w.
At(w, p) ==
    IF p = <<>> THEN w
    ELSE IF w.kind \in Wrapping THEN At(w.widget, Tail(p))
    ELSE At(w.widgets[Head(p)], Tail(p))

RECURSIVE Inner(_, _)
\* The object k steps down the prototype chain of self.
Inner(self, k) == IF k = 0 THEN self ELSE Inner(self.widget, k - 1)

RECURSIVE SetInner(_, _, _)
\* self with the object k steps down its prototype chain in state new.
SetInner(self, k, new) ==
    IF k = 0 THEN new
    ELSE [self EXCEPT !.widget = SetInner(self.widget, k - 1, new)]

RECURSIVE Progress(_)
\* The progress state of a widget tree: the frame index, repeat counter,
\* sequence cursor and elapsed time of every object, without what is drawn.
Progress(w) ==
    CASE w.kind = "AsciiAnimation" ->
           [kind |-> w.kind, sprites |-> w.sprites, animationFrame |-> w.animationFrame]
      [] w.kind = "Textbox" -> w
      [] w.kind = "ChangingPosition" ->
           [kind |-> w.kind, maxTime |-> w.maxTime, step |-> w.step,
            time |-> w.time, widget |-> Progress(w.widget)]
      [] w.kind \in {"Repeat", "RepeatIndefinitely", "WithPadding"} ->
           [w EXCEPT !.widget = Progress(w.widget)]
      [] OTHER ->
           [w EXCEPT !.widgets = [i \in 1..Len(w.widgets) |-> Progress(w.widgets[i])]]

\* ------------------------------------------------------------------ state
VARIABLES
    current,    \* the widget tree handed to animation() or called directly
    built,      \* current as it was constructed
    started,    \* animation(current, period) has been called
    timers,     \* window.setTimeout callbacks scheduled and not yet run
    thrown,     \* a TypeError escaped the last call
    nticks,     \* widget.tick() calls made by the timer callbacks
    ncalls,     \* method calls made by a direct caller
    op,         \* the last operation
    ret,        \* what the last isDone() on current returned
    calls,      \* the method calls of the last operation, in call order
    ticked,     \* paths of the objects whose tick has run
    doneSeen,   \* paths of the objects whose isDone() has returned true
    runs,       \* complete runs of the widget wrapped by current
    resets,     \* reset() calls on the widget wrapped by current
    fresh,      \* the wrapped widget's current run began in its initial state
    doneNow,    \* paths of the objects whose isDone() has returned true, with no reset() since
    frames      \* an AsciiAnimation's frame index after each tick() since it was built or reset

\* The state of one that.mapAsync(f, callback) call.  Indices are those of
\* the source, from 0: that[i] of the source is that[i + 1] here.
VARIABLES
    that,       \* the array mapAsync is called on
    mapped,     \* mapAsync has been called, and has returned
    output,     \* the output array: the indices filled in, with their values
    finished,   \* the count of value callbacks that have run
    pending,    \* indices whose value callback f holds and has not called yet
    fcalls,     \* the indices f was called with, in call order
    delivered,  \* the values the value callbacks were called with, by index
    results     \* the arrays callback was called with, in call order

mvars == <<that, mapped, output, finished, pending, fcalls, delivered, results>>

vars == <<current, built, started, timers, thrown, nticks, ncalls, op, ret,
          calls, ticked, doneSeen, runs, resets, fresh, doneNow, frames, mvars>>

\* One method call: m on the object at path p.  r is the value isDone()
\* returned; for tick, whether the object was done when called; for reset,
\* whether it left the object in the progress state it was built in.
Call(p, m, r) == [p |-> p, m |-> m, r |-> r]

\* ---------------------------------------------------------------- methods
\* A method that calls methods of other objects takes what those calls
\* return as arguments (an argument is evaluated only where the method
\* uses it); tick, isDone and reset below make the calls.
RECURSIVE tick(_, _), tickAs(_, _, _, _), isDone(_, _), reset(_, _)
RECURSIVE eachTick(_, _, _), eachReset(_, _, _), reduceIsDone(_, _, _, _)
RECURSIVE SequenceWhile(_, _)

\* The order in which widgets.each(f) visits the indices of widgets.
each(widgets) == [k \in 1..Len(widgets) |-> k]

\* Widget.reset / Widget.tick / Widget.isDone: the defaults.
WidgetReset(w) == w
WidgetTick(w) == w
WidgetIsDone(w) == TRUE

\* AsciiAnimation: useSprite(i) draws sprites[i] into <pre>.
useSprite(w, i) == [w EXCEPT !.pre = i]

\* Mutant of AsciiAnimationReset: a reset that forgets the frame index.
AsciiAnimationResetKeepsFrame(w) == w

\* AsciiAnimation: that.reset = function() { animationFrame = 0; }
AsciiAnimationReset(w) == [w EXCEPT !.animationFrame = 0]

\* AsciiAnimation: that.tick,
\* animationFrame += 1; if (animationFrame < sprites.length) useSprite(animationFrame)
AsciiAnimationTick(w) ==
    IF w.animationFrame + 1 < w.sprites
    THEN useSprite([w EXCEPT !.animationFrame = @ + 1], w.animationFrame + 1)
    ELSE [w EXCEPT !.animationFrame = @ + 1]

\* AsciiAnimation: that.isDone, return animationFrame >= sprites.length
AsciiAnimationIsDone(w) == w.animationFrame >= w.sprites

\* RepeatIndefinitely: that.isDone.  d is what widget.isDone() returns and
\* r what widget.reset() returns after it.
RepeatIndefinitelyIsDone(w, d, r) ==
    IF d.done
    THEN [w |-> [w EXCEPT !.widget = r.w], done |-> FALSE, log |-> d.log \o r.log]
    ELSE [w |-> [w EXCEPT !.widget = d.w], done |-> FALSE, log |-> d.log]

\* Mutant of RepeatIsDone: the test times < 0 for times <= 0.
RepeatIsDoneBelowZero(w, d, r) ==
    IF w.times < 0
    THEN [w |-> w, done |-> TRUE, log |-> <<>>]
    ELSE IF d.done
         THEN [w |-> [w EXCEPT !.times = @ - 1, !.widget = r.w],
               done |-> FALSE, log |-> d.log \o r.log]
         ELSE [w |-> [w EXCEPT !.widget = d.w], done |-> FALSE, log |-> d.log]

\* Repeat: that.isDone.  d is what widget.isDone() returns and r what
\* widget.reset() returns after it.
RepeatIsDone(w, d, r) ==
    IF w.times <= 0
    THEN [w |-> w, done |-> TRUE, log |-> <<>>]
    ELSE IF d.done
         THEN [w |-> [w EXCEPT !.times = @ - 1, !.widget = r.w],
               done |-> FALSE, log |-> d.log \o r.log]
         ELSE [w |-> [w EXCEPT !.widget = d.w], done |-> FALSE, log |-> d.log]

\* widgets.each(function(widget) { widget.reset(); }), from the k-th visit on.
eachReset(widgets, k, p) ==
    IF k > Len(widgets) THEN [ws |-> widgets, log |-> <<>>]
    ELSE LET i == each(widgets)[k]
             r == reset(widgets[i], p \o <<i>>)
             rest == eachReset([widgets EXCEPT ![i] = r.w], k + 1, p)
         IN  [ws |-> rest.ws, log |-> r.log \o rest.log]

\* Horizontal: that.reset.  r is what the loop over widgets returns.
HorizontalReset(w, r) == [w |-> [w EXCEPT !.widgets = r.ws], log |-> r.log]

\* widgets.each(function(widget) { widget.tick(); }), from the k-th visit
\* on; a TypeError thrown by a widget's tick ends the loop.
eachTick(widgets, k, p) ==
    IF k > Len(widgets) THEN [ws |-> widgets, log |-> <<>>, err |-> FALSE]
    ELSE LET i == each(widgets)[k]
             r == tick(widgets[i], p \o <<i>>)
             ws == [widgets EXCEPT ![i] = r.w]
             rest == eachTick(ws, k + 1, p)
         IN  IF r.err THEN [ws |-> ws, log |-> r.log, err |-> TRUE]
             ELSE [ws |-> rest.ws, log |-> r.log \o rest.log, err |-> rest.err]

\* Horizontal: that.tick.  r is what the loop over widgets returns.
HorizontalTick(w, r) == [w |-> [w EXCEPT !.widgets = r.ws], log |-> r.log, err |-> r.err]

\* Array.prototype.reduce with f = function(widget, b) { return widget.isDone() && b; }
\* from index i on: for (; i < this.length; ++i) acc = f(this[i], acc)
reduceIsDone(widgets, i, acc, p) ==
    IF i > Len(widgets) THEN [ws |-> widgets, done |-> acc, log |-> <<>>]
    ELSE LET d == isDone(widgets[i], p \o <<i>>)
             rest == reduceIsDone([widgets EXCEPT ![i] = d.w], i + 1, d.done /\ acc, p)
         IN  [ws |-> rest.ws, done |-> rest.done, log |-> d.log \o rest.log]

\* Horizontal: that.isDone.  r is what widgets.reduce(.., true) returns.
HorizontalIsDone(w, r) == [w |-> [w EXCEPT !.widgets = r.ws], done |-> r.done, log |-> r.log]

\* Sequence: that.reset.  r is what the loop over widgets returns.
SequenceReset(w, r) == [w |-> [w EXCEPT !.widgets = r.ws, !.position = 0], log |-> r.log]

\* Sequence: that.tick, widgets[position].tick().  widgets[position] is
\* undefined when position >= widgets.length, and the call throws a
\* TypeError.  t is what widgets[position].tick() returns.
SequenceTick(w, t) ==
    IF w.position >= Len(w.widgets)
    THEN [w |-> w, log |-> <<>>, err |-> TRUE]
    ELSE [w |-> [w EXCEPT !.widgets[w.position + 1] = t.w], log |-> t.log, err |-> t.err]

\* Mutant of SequenceWhile: an if for the while, one step of the cursor a call.
SequenceIf(w, p) ==
    IF w.position < Len(w.widgets)
    THEN LET i == w.position + 1
             d == isDone(w.widgets[i], p \o <<i>>)
             after == [w EXCEPT !.widgets[i] = d.w]
         IN  IF d.done THEN [w |-> [after EXCEPT !.position = @ + 1], log |-> d.log]
             ELSE [w |-> after, log |-> d.log]
    ELSE [w |-> w, log |-> <<>>]

\* Sequence: the loop of that.isDone,
\* while (position < widgets.length && widgets[position].isDone()) position += 1
SequenceWhile(w, p) ==
    IF w.position < Len(w.widgets)
    THEN LET i == w.position + 1
             d == isDone(w.widgets[i], p \o <<i>>)
             after == [w EXCEPT !.widgets[i] = d.w]
             rest == SequenceWhile([after EXCEPT !.position = @ + 1], p)
         IN  IF d.done THEN [w |-> rest.w, log |-> d.log \o rest.log]
             ELSE [w |-> after, log |-> d.log]
    ELSE [w |-> w, log |-> <<>>]

\* Mutant of SequenceIsDone: done one widget early (position >= widgets.length - 1).
SequenceIsDoneEarly(r) ==
    [w |-> r.w, done |-> r.w.position >= Len(r.w.widgets) - 1, log |-> r.log]

\* Sequence: that.isDone.  r is what the loop returns.
SequenceIsDone(r) == [w |-> r.w, done |-> r.w.position >= Len(r.w.widgets), log |-> r.log]

\* ChangingPosition: moveIt()
moveIt(w) == [w EXCEPT !.span = atTime(w.step, w.time)]

\* ChangingPosition: that.isDone
ChangingPositionIsDone(w) == w.time >= w.maxTime

\* Mutant of ChangingPositionMove: moveIt() before time += 1.
ChangingPositionMoveFirst(self, k) ==
    SetInner(self, k, [moveIt(Inner(self, k)) EXCEPT !.time = @ + 1])

\* ChangingPosition: time += 1; moveIt(), on the ChangingPosition k steps
\* down the prototype chain of self.
ChangingPositionMove(self, k) ==
    SetInner(self, k, moveIt([Inner(self, k) EXCEPT !.time = @ + 1]))

\* ChangingPosition: that.tick,
\* if (!this.isDone()) { time += 1; moveIt(); parent.tick(); }
\* d is what this.isDone() returns, this being the receiver of the call, and
\* the ChangingPosition the object k steps down its prototype chain; t is
\* what parent.tick() returns after the move.
ChangingPositionTick(k, d, t) ==
    IF d.done
    THEN [w |-> d.w, log |-> d.log, err |-> FALSE]
    ELSE [w |-> SetInner(ChangingPositionMove(d.w, k), k,
                         [Inner(ChangingPositionMove(d.w, k), k) EXCEPT !.widget = t.w]),
          log |-> d.log \o t.log, err |-> t.err]

\* ------------------------------------------------------- method dispatch

\* The record of a call and of the calls it made.
Returned(p, m, r, x) == [x EXCEPT !.log = <<Call(p, m, r)>> \o @]

\* Mutant of Inherited: a ChangingPosition's inherited call also restarts
\* its motion (time = 0; moveIt()).
InheritedRestarts(w, c) ==
    [c EXCEPT !.w = IF w.kind = "ChangingPosition"
                    THEN moveIt([w EXCEPT !.widget = c.w, !.time = 0])
                    ELSE [w EXCEPT !.widget = c.w]]

\* A method found on the wrapped widget: it changes the wrapped widget only.
Inherited(w, c) == [c EXCEPT !.w = [w EXCEPT !.widget = c.w]]

\* The record of a reset() call.
ResetReturned(p, x) == Returned(p, "reset", Progress(x.w) = Progress(At(built, p)), x)

\* Mutant of reset: WithPadding made by Object.create(Widget), its reset
\* the default.
resetPaddingDefault(w, p) ==
    ResetReturned(p,
        CASE w.kind = "AsciiAnimation" -> [w |-> AsciiAnimationReset(w), log |-> <<>>]
          [] w.kind \in {"Textbox", "WithPadding"} -> [w |-> WidgetReset(w), log |-> <<>>]
          [] w.kind = "Horizontal" -> HorizontalReset(w, eachReset(w.widgets, 1, p))
          [] w.kind = "Sequence" -> SequenceReset(w, eachReset(w.widgets, 1, p))
          [] OTHER -> Inherited(w, reset(w.widget, p \o <<1>>)))

\* obj.reset() on the object w at path p.  A wrapper has no reset of its
\* own: the wrapped widget's runs, and the wrapper's own state stays.
reset(w, p) ==
    ResetReturned(p,
        CASE w.kind = "AsciiAnimation" -> [w |-> AsciiAnimationReset(w), log |-> <<>>]
          [] w.kind = "Textbox" -> [w |-> WidgetReset(w), log |-> <<>>]
          [] w.kind = "Horizontal" -> HorizontalReset(w, eachReset(w.widgets, 1, p))
          [] w.kind = "Sequence" -> SequenceReset(w, eachReset(w.widgets, 1, p))
          [] OTHER -> Inherited(w, reset(w.widget, p \o <<1>>)))

\* widget.reset() after widget.isDone() returned d, for the wrapped widget.
resetAfter(d, p) == reset(d.w, p \o <<1>>)

\* obj.isDone() on the object w at path p.  None of the isDone functions
\* reads `this`; WithPadding has none of its own.
IsDoneReturned(p, x) == Returned(p, "isDone", x.done, x)
isDone(w, p) ==
    IsDoneReturned(p,
        CASE w.kind = "AsciiAnimation" ->
               [w |-> w, done |-> AsciiAnimationIsDone(w), log |-> <<>>]
          [] w.kind = "Textbox" -> [w |-> w, done |-> WidgetIsDone(w), log |-> <<>>]
          [] w.kind = "RepeatIndefinitely" ->
               RepeatIndefinitelyIsDone(w, isDone(w.widget, p \o <<1>>),
                                        resetAfter(isDone(w.widget, p \o <<1>>), p))
          [] w.kind = "Repeat" ->
               RepeatIsDone(w, isDone(w.widget, p \o <<1>>),
                            resetAfter(isDone(w.widget, p \o <<1>>), p))
          [] w.kind = "Horizontal" -> HorizontalIsDone(w, reduceIsDone(w.widgets, 1, TRUE, p))
          [] w.kind = "Sequence" -> SequenceIsDone(SequenceWhile(w, p))
          [] w.kind = "ChangingPosition" ->
               [w |-> w, done |-> ChangingPositionIsDone(w), log |-> <<>>]
          [] OTHER -> Inherited(w, isDone(w.widget, p \o <<1>>)))

\* parent.tick() of the ChangingPosition at path p, k steps down the
\* prototype chain of self, after the move.
parentTick(self, k, p) == tick(Inner(ChangingPositionMove(self, k), k).widget, p \o <<1>>)

\* The result of a tick function that reads no `this`, seen from the receiver.
Own(self, k, x) == [x EXCEPT !.w = SetInner(self, k, x.w)]

\* The tick found on the object w at path p, k steps down the prototype
\* chain of the receiver self at path sp, run with `this` = self.  The
\* result is the receiver's state.
TickReturned(p, done, x) == Returned(p, "tick", done, x)
tickAs(w, p, self, sp) ==
    TickReturned(p, isDone(w, p).done,
        CASE w.kind \in InheritsTick -> tickAs(w.widget, p \o <<1>>, self, sp)
          [] w.kind = "ChangingPosition" ->
               ChangingPositionTick(Len(p) - Len(sp), isDone(self, sp),
                                    parentTick(isDone(self, sp).w, Len(p) - Len(sp), p))
          [] w.kind = "AsciiAnimation" ->
               Own(self, Len(p) - Len(sp),
                   [w |-> AsciiAnimationTick(w), log |-> <<>>, err |-> FALSE])
          [] w.kind = "Textbox" ->
               Own(self, Len(p) - Len(sp), [w |-> WidgetTick(w), log |-> <<>>, err |-> FALSE])
          [] w.kind = "Horizontal" ->
               Own(self, Len(p) - Len(sp), HorizontalTick(w, eachTick(w.widgets, 1, p)))
          [] w.kind = "Sequence" ->
               Own(self, Len(p) - Len(sp),
                   SequenceTick(w, IF w.position < Len(w.widgets)
                                   THEN tick(w.widgets[w.position + 1], p \o <<w.position + 1>>)
                                   ELSE [err |-> TRUE])))

\* obj.tick() on the object w at path p.
tick(w, p) == tickAs(w, p, w, p)

\* ------------------------------------------------------ the widget trees

Leaves == {AsciiAnimation(n) : n \in 1..MaxFrames} \cup {Textbox}

\* Every combinator that wraps one widget, around a widget of S.
Wrappers(S) ==
    {Repeat(w, n) : w \in S, n \in 0..MaxTimes}
    \cup {RepeatIndefinitely(w) : w \in S}
    \cup {WithPadding(w) : w \in S}
    \cup {ChangingPosition(w, m, s) : w \in S, m \in 1..MaxTime, s \in AtTimeSteps}

\* Every combinator that takes a widget array, over one widget of S, or
\* over two widgets, one of S and one of T.
Arrays(S, T) ==
    {<<a>> : a \in S} \cup {<<a, b>> : a \in S, b \in T} \cup {<<b, a>> : a \in S, b \in T}
Containers(S, T) ==
    {Horizontal(ws) : ws \in Arrays(S, T)} \cup {Sequence(ws) : ws \in Arrays(S, T)}

\* The trees the model builds: up to two combinators deep, and an array's
\* second widget a leaf.
Level1 == Leaves \cup Wrappers(Leaves) \cup Containers(Leaves, Leaves)
Trees == Level1 \cup Wrappers(Level1) \cup Containers(Level1, Leaves)

\* ------------------------------------------------------------ observation
RECURSIVE Observe(_, _, _)
\* The runs of the wrapped widget (path <<1>>) after the calls log[i..]:
\* a run that began in the initial state is complete when the widget's
\* isDone() returns true; reset() begins the next run.
Observe(log, i, st) ==
    IF i > Len(log) THEN st
    ELSE LET e == log[i]
         IN  IF e.p # <<1>> THEN Observe(log, i + 1, st)
             ELSE IF e.m = "isDone" /\ e.r
                  THEN Observe(log, i + 1,
                         [st EXCEPT !.runs = IF st.fresh THEN @ + 1 ELSE @, !.fresh = FALSE])
             ELSE IF e.m = "reset"
                  THEN Observe(log, i + 1, [st EXCEPT !.resets = @ + 1, !.fresh = e.r])
             ELSE Observe(log, i + 1, st)

\* The paths of the objects on which log has a call of m with r in rs.
Paths(log, m, rs) == {log[i].p : i \in {j \in 1..Len(log) : log[j].m = m /\ log[j].r \in rs}}

RECURSIVE Since(_, _, _)
\* The calls log[i..] followed from st: st.done is the paths of the objects
\* whose isDone() has returned true with no reset() since, st.late the paths
\* of the objects that received a tick() while in st.done.
Since(log, i, st) ==
    IF i > Len(log) THEN st
    ELSE LET e == log[i]
         IN  IF e.m = "isDone" /\ e.r
             THEN Since(log, i + 1, [st EXCEPT !.done = @ \cup {e.p}])
             ELSE IF e.m = "reset"
                  THEN Since(log, i + 1, [st EXCEPT !.done = @ \ {e.p}])
             ELSE IF e.m = "tick" /\ e.p \in st.done
                  THEN Since(log, i + 1, [st EXCEPT !.late = @ \cup {e.p}])
             ELSE Since(log, i + 1, st)

\* What the calls of one operation add to the observations.
Observed(log) ==
    LET st == Observe(log, 1, [runs |-> runs, resets |-> resets, fresh |-> fresh])
    IN  /\ calls' = log
        /\ ticked' = ticked \cup Paths(log, "tick", BOOLEAN)
        /\ doneSeen' = doneSeen \cup Paths(log, "isDone", {TRUE})
        /\ runs' = st.runs
        /\ resets' = st.resets
        /\ fresh' = st.fresh
        /\ doneNow' = Since(log, 1, [done |-> doneNow, late |-> {}]).done

\* ---------------------------------------------------------------- actions
Init ==
    /\ current \in Trees
    /\ built = current
    /\ started = FALSE
    /\ timers = 0
    /\ thrown = FALSE
    /\ nticks = 0
    /\ ncalls = 0
    /\ op = "new"
    /\ ret = "none"
    /\ calls = <<>>
    /\ ticked = {}
    /\ doneSeen = {}
    /\ runs = 0
    /\ resets = 0
    /\ fresh = TRUE
    /\ doneNow = {}
    /\ frames = <<>>
    /\ that = <<>> /\ mapped = FALSE /\ output = <<>> /\ finished = 0
    /\ pending = {} /\ fcalls = <<>> /\ delivered = <<>> /\ results = <<>>

\* animation(widget, period): ticker() schedules the first callback.
animation ==
    /\ ~started /\ ncalls = 0
    /\ started' = TRUE
    /\ timers' = timers + 1
    /\ op' = "animation"
    /\ UNCHANGED <<current, built, thrown, nticks, ncalls, ret, calls, ticked,
                   doneSeen, runs, resets, fresh, doneNow, frames, mvars>>

\* The frame index of current, when it is an AsciiAnimation.
Frame(w) == IF w.kind = "AsciiAnimation" THEN <<w.animationFrame>> ELSE <<>>

\* The setTimeout callback: widget.tick(); if (!widget.isDone()) { ticker(); }
\* A TypeError thrown by tick() ends the callback.
ticker ==
    /\ timers > 0 /\ nticks < MaxTicks
    /\ LET t == tick(current, <<>>)
           d == isDone(t.w, <<>>)
       IN  /\ nticks' = nticks + 1
           /\ op' = "ticker"
           /\ IF t.err
              THEN /\ current' = t.w
                   /\ thrown' = TRUE
                   /\ timers' = timers - 1
                   /\ ret' = "none"
                   /\ frames' = frames \o Frame(t.w)
                   /\ Observed(t.log)
              ELSE /\ current' = d.w
                   /\ thrown' = FALSE
                   /\ timers' = IF d.done THEN timers - 1 ELSE timers
                   /\ ret' = IF d.done THEN "true" ELSE "false"
                   /\ frames' = frames \o Frame(t.w)
                   /\ Observed(t.log \o d.log)
    /\ UNCHANGED <<built, started, ncalls, mvars>>

\* A caller that holds the widget calls current.tick().
CallTick ==
    /\ ~started /\ ~thrown /\ ncalls < MaxCalls
    /\ LET t == tick(current, <<>>)
       IN  /\ current' = t.w
           /\ thrown' = t.err
           /\ frames' = frames \o Frame(t.w)
           /\ Observed(t.log)
    /\ ncalls' = ncalls + 1
    /\ op' = "tick"
    /\ ret' = "none"
    /\ UNCHANGED <<built, started, timers, nticks, mvars>>

\* A caller that holds the widget calls current.isDone().
CallIsDone ==
    /\ ~started /\ ~thrown /\ ncalls < MaxCalls
    /\ LET d == isDone(current, <<>>)
       IN  /\ current' = d.w
           /\ ret' = IF d.done THEN "true" ELSE "false"
           /\ Observed(d.log)
    /\ ncalls' = ncalls + 1
    /\ op' = "isDone"
    /\ UNCHANGED <<built, started, timers, thrown, nticks, frames, mvars>>

\* A caller that holds the widget calls current.reset().
CallReset ==
    /\ ~started /\ ~thrown /\ ncalls < MaxCalls
    /\ LET r == reset(current, <<>>)
       IN  /\ current' = r.w
           /\ Observed(r.log)
    /\ ncalls' = ncalls + 1
    /\ op' = "reset"
    /\ ret' = "none"
    /\ frames' = <<>>
    /\ UNCHANGED <<built, started, timers, thrown, nticks, mvars>>

Next == animation \/ ticker \/ CallTick \/ CallIsDone \/ CallReset

Spec == Init /\ [][Next]_vars

\* --------------------------------------------------------------- mapAsync
\* The elements of the arrays, and the values f hands to its value callback.
Elems == {"a", "b"}
Values == {"x", "y"}

\* output[i] = value, on an array that may have holes.
Filled(out, i, value) == [k \in DOMAIN out \cup {i} |-> IF k = i THEN value ELSE out[k]]

\* The value callback f is given for index i:
\* function(value) { output[i] = value; ++finished;
\*                   if (finished == that.length) { callback(output); } }
\* st holds output, finished and the calls of callback so far.
valueIs(st, i, value) ==
    [st EXCEPT !.output = Filled(@, i, value),
               !.finished = @ + 1,
               !.results = IF st.finished + 1 = Len(that)
                           THEN Append(@, Filled(st.output, i, value)) ELSE @,
               !.delivered = Filled(@, i, value)]

RECURSIVE mapAsyncFor(_, _, _, _)
\* for (var i = 0; i < this.length; ++i) f(that[i], function(value) ...),
\* from index i on.  f calls its value callback before it returns for the
\* indices of sync, with the values of vals, and keeps it for later for
\* the others.
mapAsyncFor(i, sync, vals, st) ==
    IF i >= Len(that) THEN st
    ELSE mapAsyncFor(i + 1, sync, vals,
            IF i \in sync
            THEN [valueIs(st, i, vals[i]) EXCEPT !.fcalls = Append(@, i)]
            ELSE [st EXCEPT !.fcalls = Append(@, i), !.pending = @ \cup {i}])

\* The state of the call as one record, and back.
MapState ==
    [output |-> output, finished |-> finished, results |-> results,
     delivered |-> delivered, fcalls |-> fcalls, pending |-> pending]
MapBecomes(st) ==
    /\ output' = st.output
    /\ finished' = st.finished
    /\ results' = st.results
    /\ delivered' = st.delivered
    /\ fcalls' = st.fcalls
    /\ pending' = st.pending

\* An array is handed to mapAsync; no widget is involved.
InitMap ==
    /\ that \in UNION {[1..n -> Elems] : n \in 0..MaxLen}
    /\ mapped = FALSE /\ output = <<>> /\ finished = 0
    /\ pending = {} /\ fcalls = <<>> /\ delivered = <<>> /\ results = <<>>
    /\ current = Textbox /\ built = Textbox
    /\ started = FALSE /\ timers = 0 /\ thrown = FALSE /\ nticks = 0 /\ ncalls = 0
    /\ op = "new" /\ ret = "none" /\ calls = <<>> /\ ticked = {} /\ doneSeen = {}
    /\ runs = 0 /\ resets = 0 /\ fresh = TRUE /\ doneNow = {} /\ frames = <<>>

wvars == <<current, built, started, timers, thrown, nticks, ncalls, op, ret,
           calls, ticked, doneSeen, runs, resets, fresh, doneNow, frames>>

\* that.mapAsync(f, callback): the loop, with every f(that[i], ...) call.
mapAsync ==
    /\ ~mapped
    /\ mapped' = TRUE
    /\ \E sync \in SUBSET (0..Len(that) - 1) :
          \E vals \in [sync -> Values] :
             MapBecomes(mapAsyncFor(0, sync, vals, MapState))
    /\ UNCHANGED <<that, wvars>>

\* A value callback that f kept is called, in any order, with any value.
ValueIs ==
    /\ mapped
    /\ \E i \in pending : \E value \in Values :
          MapBecomes([valueIs(MapState, i, value) EXCEPT !.pending = @ \ {i}])
    /\ UNCHANGED <<that, mapped, wvars>>

NextMap == mapAsync \/ ValueIs

SpecMap == InitMap /\ [][NextMap]_vars

\* ----------------------------------------------------------------- claims

\* The driver has stopped: animation() was called and no callback is scheduled.
Stopped == started /\ timers = 0

\* C1: a 3-frame AsciiAnimation wrapped in Repeat(_, 2) and driven by
\* animation() receives exactly 6 tick() calls, 3 per run, before the
\* driver stops.
C1_SixTicks ==
    (built = Repeat(AsciiAnimation(3), 2) /\ Stopped) => nticks = 6

\* C2: for Repeat(w, n) with n >= 1 driven tick-then-isDone, when
\* Repeat.isDone() first returns true exactly n complete runs of w (from
\* its initial state to w.isDone() = true) have been observed.
C2_ExactlyNRuns ==
    (started /\ built.kind = "Repeat" /\ built.times >= 1 /\ ret = "true")
        => runs = built.times

\* C3: Repeat(w, 0) driven by animation() is done at its first isDone()
\* and w never receives a tick().
C3_RepeatZeroNeverTicks ==
    (started /\ built.kind = "Repeat" /\ built.times = 0)
        => (ret # "false" /\ <<1>> \notin ticked)

\* C4: for RepeatIndefinitely(w), isDone() returns false on every call, and
\* w.reset() is called exactly once per completed run of w.
C4_ResetOncePerRun ==
    (started /\ built.kind = "RepeatIndefinitely") => (ret # "true" /\ resets = runs)

\* The calls of method m that the last operation made on the widgets of
\* current's array, in call order.
ChildCalls(m) == SelectSeq(calls, LAMBDA e : Len(e.p) = 1 /\ e.m = m)
ChildPaths(m) == [i \in 1..Len(ChildCalls(m)) |-> ChildCalls(m)[i].p]
InListOrder == [i \in 1..Len(built.widgets) |-> <<i>>]

\* C5: Horizontal.isDone() queries every child's isDone(), without
\* short-circuit, and returns true iff every one returned true;
\* Horizontal.tick() calls tick() on every child, in list order, on every
\* outer tick (here: of the driver), whether or not that child is done.
C5_HorizontalAllChildren ==
    built.kind = "Horizontal" =>
        /\ op = "ticker" => ChildPaths("tick") = InListOrder
        /\ op = "isDone" =>
              /\ ChildPaths("isDone") = InListOrder
              /\ ret = "true" <=> \A i \in 1..Len(ChildCalls("isDone")) : ChildCalls("isDone")[i].r

\* A Sequence of two widgets, a at path <<1>> and b at path <<2>>, driven
\* by animation().
DrivenSequence == started /\ built.kind = "Sequence" /\ Len(built.widgets) = 2
TickedIn(log, p) == \E i \in 1..Len(log) : log[i].m = "tick" /\ log[i].p = p

\* C6: for a driven Sequence([a, b]), b receives a tick() only after
\* a.isDone() has returned true; once a.isDone() has returned true no
\* later operation ticks a; and Sequence.isDone() returns true only when
\* the isDone() of both a and b has returned true.
C6_SequenceOrder ==
    /\ [][(DrivenSequence /\ TickedIn(calls', <<2>>)) => <<1>> \in doneSeen]_vars
    /\ [][(DrivenSequence /\ <<1>> \in doneSeen) => ~TickedIn(calls', <<1>>)]_vars
    /\ []((DrivenSequence /\ ret = "true") =>
             (current.position >= 2 /\ {<<1>>, <<2>>} \subseteq doneSeen))

\* Both widgets of a driven Sequence were ticked and the driver has stopped.
C6_Witness ==
    DrivenSequence /\ Stopped /\ ret = "true" /\ {<<1>>, <<2>>} \subseteq ticked
    /\ built.widgets[1].kind = "AsciiAnimation"

RECURSIVE Nodes(_)
\* The states of the objects of the tree w.
Nodes(w) ==
    {w} \cup (IF w.kind \in Wrapping THEN Nodes(w.widget)
              ELSE IF w.kind \in {"Horizontal", "Sequence"}
                   THEN UNION {Nodes(w.widgets[i]) : i \in 1..Len(w.widgets)}
                   ELSE {})

\* C7: the position applied by every ChangingPosition is
\* positionAtTime(elapsed), and its isDone() returns true exactly when
\* elapsed has reached maxTime, whatever the wrapped widget's isDone().
C7_PositionFollowsTime ==
    /\ \A n \in Nodes(current) :
          n.kind = "ChangingPosition" => n.span = atTime(n.step, n.time)
    /\ (built.kind = "ChangingPosition" /\ ret # "none") =>
          (ret = "true" <=> current.time >= current.maxTime)

\* A ChangingPosition that has moved reports done while the AsciiAnimation
\* it wraps is not.
C7_Witness ==
    /\ built.kind = "ChangingPosition" /\ ret = "true"
    /\ current.time > 0 /\ current.span = atTime(current.step, current.maxTime)
    /\ current.widget.kind = "AsciiAnimation"
    /\ current.widget.animationFrame < current.widget.sprites

RECURSIVE Ticks(_, _)
\* The widget w after k calls of w.tick().
Ticks(w, k) == IF k = 0 THEN w ELSE tick(Ticks(w, k - 1), <<>>).w

\* C8: an AsciiAnimation's isDone() is false while the frame index is below
\* the number of frames and true from there on; and the frame indices after
\* the ticks that follow a reset() are those of the same ticks on the
\* animation as built.
C8_DoneAndReplay ==
    built.kind = "AsciiAnimation" =>
        /\ ret # "none" => (ret = "true" <=> current.animationFrame >= current.sprites)
        /\ \A k \in 1..Len(frames) : frames[k] = Ticks(built, k).animationFrame

\* An AsciiAnimation that ran to done and was reset has been ticked again.
C8_Witness ==
    /\ built.kind = "AsciiAnimation" /\ <<>> \in doneSeen
    /\ op = "tick" /\ frames = <<1>>

\* C9: what an AsciiAnimation shows matches its frame index: the frame at
\* the index while the index is in range, after tick() and after reset(),
\* and the last frame once it is out of range.
C9_ContentMatchesFrame ==
    \A n \in Nodes(current) :
        n.kind = "AsciiAnimation" =>
            n.pre = IF n.animationFrame < n.sprites THEN n.animationFrame ELSE n.sprites - 1

\* C10: reset() returns a widget and every widget it wraps to the progress
\* state it was built in (frame index, repeat counter, sequence cursor,
\* elapsed time).
C10_ResetRestores == op = "reset" => Progress(current) = Progress(built)

\* The object that holds the object at path p, and the kinds whose tick
\* calls tick() on the objects they hold.
Holder(p) == At(built, SubSeq(p, 1, Len(p) - 1))
TicksChildren == {"Horizontal", "Sequence", "ChangingPosition"}

\* The children that the calls of log tick after their isDone() has
\* returned true with no reset() since, dn being the paths so done before.
LateTicks(log, dn) ==
    {p \in Since(log, 1, [done |-> dn, late |-> {}]).late :
        p # <<>> /\ Holder(p).kind \in TicksChildren}

\* C11: in a tree driven by animation(), no Horizontal, Sequence or
\* ChangingPosition calls tick() on a child whose isDone() has returned true
\* with no reset() of that child since.
C11_NoTickAfterDone == [][started => LateTicks(calls', doneNow) = {}]_vars

RECURSIVE PathsOf(_)
\* The paths of the objects of the tree w.
PathsOf(w) ==
    {<<>>} \cup
    (IF w.kind \in Wrapping THEN {<<1>> \o q : q \in PathsOf(w.widget)}
     ELSE IF w.kind \in {"Horizontal", "Sequence"}
          THEN UNION {{<<i>> \o q : q \in PathsOf(w.widgets[i])} : i \in 1..Len(w.widgets)}
          ELSE {})

\* The tree w holds no Repeat and no RepeatIndefinitely.
NoRepeat(w) == \A n \in Nodes(w) : n.kind \notin {"Repeat", "RepeatIndefinitely"}

\* C12: in a tree with no Repeat and no RepeatIndefinitely, isDone() is a
\* pure query: it leaves the progress state of the tree as it was, and
\* called again with no tick() or reset() in between it returns the value
\* it returned before.
C12_IsDonePure ==
    [][(NoRepeat(built) /\ op' = "isDone") =>
          /\ Progress(current') = Progress(current)
          /\ op = "isDone" => ret' = ret]_vars

RECURSIVE CursorsAt(_, _)
\* The tree w with the cursor of every Sequence set to c: all of its state
\* but the cursors (frame index and what is drawn, elapsed time and
\* position applied).
CursorsAt(w, c) ==
    CASE w.kind \in {"AsciiAnimation", "Textbox"} -> w
      [] w.kind \in Wrapping -> [w EXCEPT !.widget = CursorsAt(w.widget, c)]
      [] w.kind = "Sequence" ->
           [w EXCEPT !.position = c,
                     !.widgets = [i \in 1..Len(w.widgets) |-> CursorsAt(w.widgets[i], c)]]
      [] OTHER ->
           [w EXCEPT !.widgets = [i \in 1..Len(w.widgets) |-> CursorsAt(w.widgets[i], c)]]

\* The paths of the Sequence objects.
Cursors == {p \in PathsOf(built) : At(built, p).kind = "Sequence"}

\* C12, amended: in a tree with no Repeat and no RepeatIndefinitely, every
\* isDone() leaves all state as it was but the cursors of Sequences, which
\* it may only move forward, within range and past widgets that are done;
\* and an isDone() that follows an isDone() with no tick() or reset() in
\* between returns the same value and changes no state at all.
C12_Idempotent ==
    [][(NoRepeat(built) /\ op' = "isDone" /\ ncalls' # ncalls) =>
          /\ CursorsAt(current', 0) = CursorsAt(current, 0)
          /\ \A p \in Cursors :
                /\ At(current', p).position >= At(current, p).position
                /\ At(current', p).position <= Len(At(current, p).widgets)
                /\ \A i \in At(current, p).position + 1..At(current', p).position :
                      isDone(At(current, p).widgets[i], p \o <<i>>).done
          /\ op = "isDone" => (current' = current /\ ret' = ret)]_vars

\* isDone() was called twice, and nothing else, on a padded Sequence whose
\* first widget is static: the cursor has moved to the second widget.
C12_Witness ==
    /\ built = WithPadding(Sequence(<<Textbox, AsciiAnimation(2)>>))
    /\ ncalls = 2 /\ op = "isDone" /\ ticked = {} /\ resets = 0
    /\ current.widget.position = 1 /\ ret = "false"

\* A step of the timer callback, and the calls of log on the driven widget
\* itself.
Callback == nticks' # nticks
RootCalls(log, m) == SelectSeq(log, LAMBDA e : e.p = <<>> /\ e.m = m)

\* The parts of C13 that do not depend on what tick() does: at most one
\* callback is outstanding, a callback begins with the one tick() of the
\* driven widget, a callback is outstanding after a callback only if
\* isDone() returned false, and after isDone() has returned true the
\* driver makes no call.
C13_Schedule ==
    /\ [](timers <= 1)
    /\ [][Callback => /\ nticks' = nticks + 1
                      /\ Head(calls') = Call(<<>>, "tick", Head(calls').r)
                      /\ Len(RootCalls(calls', "tick")) = 1]_vars
    /\ [][(Callback /\ timers' > 0) => ret' = "false"]_vars
    /\ [][(started /\ ret = "true") => (timers = 0 /\ UNCHANGED <<nticks, calls, current>>)]_vars

\* C13: animation() keeps at most one callback outstanding; each callback
\* makes one widget.tick() and then one widget.isDone(); a callback is
\* scheduled only if that isDone() returned false; and once isDone() has
\* returned true the driver makes no further call.
C13_OneTickOneIsDone ==
    /\ C13_Schedule
    /\ [][Callback => /\ ret' \in {"true", "false"}
                      /\ RootCalls(calls', "isDone") # <<>>]_vars

\* C14: every tick(), isDone() and reset() made while animation() drives a
\* tree returns: no Sequence.tick() runs with its cursor out of range
\* (position >= widgets.length), which is what throws.
C14_Total == started => ~thrown

\* What isDone() returned, as ret records it.
Ret(done) == IF done THEN "true" ELSE "false"

\* C15: WithPadding(w) behaves as w: a tick(), isDone() or reset() on the
\* padded widget, from a caller or from the driver, changes w as the same
\* call on w itself does, and isDone() returns what w.isDone() returns.
C15_PaddingTransparent ==
    [][built.kind = "WithPadding" =>
          /\ (ncalls' # ncalls /\ op' = "tick") =>
                /\ current'.widget = tick(current.widget, <<>>).w
                /\ thrown' = tick(current.widget, <<>>).err
          /\ (ncalls' # ncalls /\ op' = "isDone") =>
                /\ current'.widget = isDone(current.widget, <<>>).w
                /\ ret' = Ret(isDone(current.widget, <<>>).done)
          /\ (ncalls' # ncalls /\ op' = "reset") =>
                current'.widget = reset(current.widget, <<>>).w
          /\ (Callback /\ ~thrown') =>
                /\ ~tick(current.widget, <<>>).err
                /\ current'.widget = isDone(tick(current.widget, <<>>).w, <<>>).w
                /\ ret' = Ret(isDone(tick(current.widget, <<>>).w, <<>>).done)
          /\ (Callback /\ thrown') =>
                /\ tick(current.widget, <<>>).err
                /\ current'.widget = tick(current.widget, <<>>).w]_vars

\* A padded ChangingPosition has been ticked to its end, and the animation
\* it wraps with it, by a caller or by the driver.
C15_Witness ==
    /\ built.kind = "WithPadding" /\ built.widget.kind = "ChangingPosition"
    /\ built.widget.widget.kind = "AsciiAnimation"
    /\ current.widget.time = current.widget.maxTime
    /\ current.widget.widget.animationFrame > 0
    /\ op \in {"tick", "ticker"}

\* The indices of that, in index order.
Indices == [k \in 1..Len(that) |-> k - 1]

\* C16: that.mapAsync(f, callback) calls f on the elements in index order;
\* callback is called at most once, and only with every index of the output
\* filled with the value delivered for it; and once every value callback
\* has been called, callback has been called exactly once.
C16_MapAsync ==
    mapped =>
        /\ fcalls = Indices
        /\ Len(results) <= 1
        /\ \A r \in 1..Len(results) :
              /\ DOMAIN results[r] = 0..Len(that) - 1
              /\ results[r] = delivered
        /\ pending = {} => Len(results) = 1

\* C17: ChangingPosition.tick() acts only while the ChangingPosition itself
\* is not done, so its elapsed time never passes maxTime, whatever wraps
\* it; and a tick() on a Repeat around it leaves the Repeat's counter as
\* it was.
C17_ElapsedBounded ==
    /\ [](\A n \in Nodes(current) : n.kind = "ChangingPosition" => n.time <= n.maxTime)
    /\ [][(built.kind = "Repeat" /\ ncalls' # ncalls /\ op' = "tick") =>
             current'.times = current.times]_vars

\* The paths of the ChangingPosition objects.
Movers == {p \in PathsOf(built) : At(built, p).kind = "ChangingPosition"}

\* C18: reset() on a ChangingPosition resets the wrapped widget and leaves
\* elapsed and the applied position as they were (as does every operation
\* that ticks nothing); elapsed never goes back, so a ChangingPosition
\* that is done stays done and its motion never restarts, also inside a
\* Repeat or a Sequence.
C18_ResetKeepsElapsed ==
    [][/\ \A p \in Movers :
             /\ At(current', p).time >= At(current, p).time
             /\ ChangingPositionIsDone(At(current, p)) => ChangingPositionIsDone(At(current', p))
             /\ Paths(calls', "tick", BOOLEAN) = {} =>
                   /\ At(current', p).time = At(current, p).time
                   /\ At(current', p).span = At(current, p).span
       /\ (built.kind = "ChangingPosition" /\ ncalls' # ncalls /\ op' = "reset") =>
             current'.widget = reset(current.widget, <<1>>).w]_vars

\* A ChangingPosition that wraps an animation has run to its end inside a
\* Repeat, which has reset it and counted the run: it is still done.
C18_Witness ==
    /\ built.kind = "Repeat" /\ built.widget.kind = "ChangingPosition"
    /\ built.widget.widget.kind = "AsciiAnimation"
    /\ current.times < built.times /\ resets > 0
    /\ ChangingPositionIsDone(current.widget)
    /\ current.widget.widget.animationFrame = 0

\* The paths of the Repeat objects, and a caller's isDone() on current.
Repeats == {p \in PathsOf(built) : At(built, p).kind = "Repeat"}
IsDoneCalled == ncalls' # ncalls /\ op' = "isDone"

\* The counter of a Repeat stays between 0 and times and never grows, and
\* once isDone() has returned true every isDone() returns true.
C19_Counter ==
    /\ [](\A p \in Repeats : At(current, p).times \in 0..At(built, p).times)
    /\ [][\A p \in Repeats : At(current', p).times <= At(current, p).times]_vars
    /\ [][(built.kind = "Repeat" /\ IsDoneCalled /\ <<>> \in doneSeen) => ret' = "true"]_vars

\* C19: Repeat.isDone() with the counter <= 0 returns true and neither
\* calls nor changes the wrapped widget, and from then on every isDone()
\* returns true; with the counter > 0 and the wrapped widget done it takes
\* one from the counter, resets the wrapped widget once and returns false;
\* with the wrapped widget not done it returns false and changes no state.
\* The counter of a Repeat never grows and stays between 0 and times.
C19_ThreeOutcomes ==
    /\ C19_Counter
    /\ [][(built.kind = "Repeat" /\ IsDoneCalled) =>
             CASE current.times <= 0 ->
                    ret' = "true" /\ current' = current /\ Len(calls') = 1
               [] current.times > 0 /\ isDone(current.widget, <<1>>).done ->
                    /\ ret' = "false"
                    /\ current'.times = current.times - 1
                    /\ Len(SelectSeq(calls', LAMBDA e : e.p = <<1>> /\ e.m = "reset")) = 1
                    /\ current'.widget =
                          reset(isDone(current.widget, <<1>>).w, <<1>>).w
               [] OTHER ->
                    ret' = "false" /\ current' = current]_vars

\* C19, amended: as C19, but with the wrapped widget not done isDone()
\* returns false, keeps the counter, resets nothing, and changes nothing
\* but what the wrapped widget's own isDone() changes.
C19_RepeatIsDone ==
    /\ C19_Counter
    /\ [][(built.kind = "Repeat" /\ IsDoneCalled) =>
             CASE current.times <= 0 ->
                    ret' = "true" /\ current' = current /\ Len(calls') = 1
               [] current.times > 0 /\ isDone(current.widget, <<1>>).done ->
                    /\ ret' = "false"
                    /\ current'.times = current.times - 1
                    /\ Len(SelectSeq(calls', LAMBDA e : e.p = <<1>> /\ e.m = "reset")) = 1
                    /\ current'.widget =
                          reset(isDone(current.widget, <<1>>).w, <<1>>).w
               [] OTHER ->
                    /\ ret' = "false"
                    /\ current'.times = current.times
                    /\ <<1>> \notin Paths(calls', "reset", BOOLEAN)
                    /\ current'.widget = isDone(current.widget, <<1>>).w]_vars

\* A caller's isDone() on a Repeat of one run of an animation has counted
\* the run and reset the animation, and the next isDone() has returned true.
C19_Witness ==
    /\ built.kind = "Repeat" /\ built.times = 1
    /\ built.widget.kind = "AsciiAnimation"
    /\ current.times = 0 /\ resets = 1 /\ op = "isDone" /\ ret = "true"
    /\ current.widget.animationFrame = 0

\* The tree w holds no RepeatIndefinitely.
Finite(w) == \A n \in Nodes(w) : n.kind # "RepeatIndefinitely"

\* C20: a tree with no RepeatIndefinitely that animation() drives runs
\* until a callback whose isDone() returns true: the driver is left with no
\* callback scheduled, after which nothing more can run, only once
\* isDone() has returned true.
C20_StopsOnlyDone == (started /\ Finite(built) /\ timers = 0) => ret = "true"

====
